---------------------------- MODULE Spec2Model ----------------------------
(***************************************************************************)
(* State-machine model of the ai-proposal front end (src/src/App.tsx, and  *)
(* its earlier revision src/unnamed/part_000, whose logic is identical),   *)
(* and of its serverless function (src/api/generate-project-folder.ts).    *)
(*                                                                         *)
(* Texts that the code inspects character by character (lead text, output  *)
(* text, titles) are sequences of one-character strings.  Texts that are   *)
(* only displayed (error text, copy message) are plain strings.            *)
(***************************************************************************)
EXTENDS Integers, Sequences, FiniteSets, TLC

(***************************************************************************)
(* Bounds of the model.                                                    *)
(***************************************************************************)
\* number of generation requests the operator issues in the main model
MaxRequests == 2
\* number of generation requests in the model of the start of the application
StartupRequests == 2
\* number of generation requests in the model of successive generations
SuccessiveRuns == 17
\* lines of a generated document
MaxPieces == 3
\* lines of a lead
MaxLeadLines == 3
\* number of generation requests in the model of titles
TitleRuns == 1
\* number of clicks on Copy
MaxCopies == 2
\* the last second of the clock
MaxTime == 3

(***************************************************************************)
(* Program constants.                                                      *)
(***************************************************************************)
\* App.tsx:282  .slice(0, 15)
HistoryLimit == 15
\* App.tsx:197  useState<string | null>(null): the null id
Null == 0
\* ids of items found in the store at start are StoredIdBase + position;
\* ids made by makeId are 1, 2, 3, ... (every id is unique, as a UUID is)
StoredIdBase == 100
\* App.tsx:302, 305  setTimeout(..., 2000), in seconds
CopyMessageSeconds == 2

(***************************************************************************)
(* Text literals of the program.                                           *)
(***************************************************************************)
\* App.tsx:246 (the last element stands for the one-character ellipsis)
PlaceholderText ==
    <<"G", "e", "n", "e", "r", "a", "t", "i", "n", "g", " ", "p", "r", "o",
      "j", "e", "c", "t", " ", "f", "o", "l", "d", "e", "r", " ", "f", "r",
      "o", "m", " ", "b", "a", "c", "k", "e", "n", "d", "...">>
\* App.tsx:268
NoFolderText ==
    <<"N", "o", " ", "p", "r", "o", "j", "e", "c", "t", " ", "f", "o", "l",
      "d", "e", "r", " ", "r", "e", "t", "u", "r", "n", "e", "d", ".">>
\* App.tsx:82, 86
UntitledLead ==
    <<"U", "n", "t", "i", "t", "l", "e", "d", " ", "l", "e", "a", "d">>
\* App.tsx:79
LeadNamePrefix ==
    <<"l", "e", "a", "d", " ", "n", "a", "m", "e", ":">>
\* App.tsx:237
ValidationMsg == "Paste a lead on the left, then click Generate."
\* App.tsx:264
GenericHttpMsg == "Failed to generate project folder."
\* App.tsx:288
GenericCatchMsg == "Something went wrong while contacting the backend."
\* App.tsx:301
CopiedMsg == "Copied to clipboard."
\* App.tsx:304
CopyFailedMsg == "Unable to copy. Please try again."
\* generate-project-folder.ts:281, 289, 296, 328, 340
MethodNotAllowedMsg == "Method not allowed"
MissingLeadTextMsg == "Missing leadText in request body."
KeyNotSetMsg == "OPENAI_API_KEY is not set on the server."
OpenAIErrorMsg == "OpenAI API error while generating project folder."
UnexpectedErrorMsg == "Unexpected error while generating project folder."
\* generate-project-folder.ts:334
NoContentText ==
    <<"N", "o", " ", "c", "o", "n", "t", "e", "n", "t", " ", "r", "e", "t",
      "u", "r", "n", "e", "d", " ", "f", "r", "o", "m", " ", "O", "p", "e",
      "n", "A", "I", ".">>
\* generate-project-folder.ts:308, 316
DefaultModel == "gpt-4.1-mini"
DefaultTone == "premium"

(***************************************************************************)
(* Inputs of the model.                                                    *)
(***************************************************************************)
LeadJo ==
    <<"L", "e", "a", "d", " ", "N", "a", "m", "e", ":", " ", "J", "o", "\n",
      "H", "i">>
LeadShop == <<"S", "h", "o", "p">>
LeadBlank == <<" ", "\n">>
\* what the operator can type into the lead text area
LeadTexts == {<<>>, LeadBlank, LeadJo}
\* App.tsx:480-486, the options of the model select
Models == {"gpt-4.1-mini", "gpt-4.1"}
\* App.tsx:500-508, options of the tone select (two of the four)
Tones == {"premium", "concise"}
FolderA ==
    <<"#", "#", " ", "1", ".", " ", "P", "r", "o", "p", "o", "s", "a", "l",
      "\n", "O", "k">>
FolderOld == <<"O", "l", "d">>
\* a project folder with two of the four sections
FolderTwoSections ==
    <<"#", "#", " ", "1", ".", " ", "P", "r", "o", "j", "e", "c", "t", " ",
      "O", "v", "e", "r", "v", "i", "e", "w", "\n", "H", "i", "\n", "#",
      "#", " ", "3", ".", " ", "P", "r", "o", "p", "o", "s", "a", "l",
      "\n", "O", "k">>
\* a project folder of white space
FolderBlank == <<" ">>

\* Lines of generated documents: the headings of the prompt in several
\* spellings, a heading of another title, a numbered marker with no title,
\* a heading one level down, a line of text and an empty line.
LineOverview ==
    <<"#", "#", " ", "1", ".", " ", "P", "r", "o", "j", "e", "c", "t", " ",
      "O", "v", "e", "r", "v", "i", "e", "w">>
LineBriefAndProposal ==
    <<"#", "#", " ", "2", ".", " ", "F", "i", "n", "a", "l", " ", "P", "r",
      "o", "j", "e", "c", "t", " ", "B", "r", "i", "e", "f", " ", "&", " ",
      "P", "r", "o", "p", "o", "s", "a", "l">>
LineProposalUpper ==
    <<"#", "#", " ", "3", ".", " ", "P", "R", "O", "P", "O", "S", "A", "L">>
LineMiniSpec ==
    <<"#", "#", "4", ".", "m", "i", "n", "i", " ", "s", "p", "e", "c">>
LineNotes ==
    <<"#", "#", " ", "9", ".", " ", "N", "o", "t", "e", "s">>
LineNoTitle ==
    <<"#", "#", " ", "6", ".">>
LineDeeper ==
    <<"#", "#", "#", " ", "1", ".", " ", "P", "r", "o", "p", "o", "s", "a",
      "l">>
LineHello ==
    <<"H", "e", "l", "l", "o">>
LineEmpty ==
    <<>>
DocLines ==
    {LineOverview, LineBriefAndProposal, LineProposalUpper, LineMiniSpec, LineNotes,
     LineNoTitle, LineDeeper, LineHello, LineEmpty}

\* the lines of ls, joined by "\n"
RECURSIVE JoinLines(_)
JoinLines(ls) ==
    IF ls = <<>> THEN <<>>
    ELSE IF Len(ls) = 1 THEN ls[1]
    ELSE ls[1] \o <<"\n">> \o JoinLines(Tail(ls))

\* the documents of at most MaxPieces lines
Docs == {JoinLines(ls) : ls \in UNION {[1..n -> DocLines] : n \in 0..MaxPieces}}

\* Lines of a lead: name lines in several letter cases, with and without a
\* name, two lines of text, one with spaces around it, a blank and an empty
\* line.
NameLineJo ==
    <<"L", "e", "a", "d", " ", "N", "a", "m", "e", ":", " ", "J", "o">>
NameLineUpper ==
    <<"L", "E", "A", "D", " ", "N", "A", "M", "E", ":", " ", "J", "o">>
NameLineMixed ==
    <<"l", "e", "a", "d", " ", "N", "A", "M", "E", ":">>
NameLineBare ==
    <<"l", "e", "a", "d", " ", "n", "a", "m", "e", ":", " ", " ">>
TextLineShop ==
    <<" ", "S", "h", "o", "p", " ">>
TextLineHi ==
    <<"H", "i">>
TextLineBlank ==
    <<" ">>
TextLineEmpty ==
    <<>>
LeadLines ==
    {NameLineJo, NameLineUpper, NameLineMixed, NameLineBare,
     TextLineShop, TextLineHi, TextLineBlank, TextLineEmpty}
\* the leads of at most MaxLeadLines lines
TitleLeads ==
    {JoinLines(ls) : ls \in UNION {[1..n -> LeadLines] : n \in 0..MaxLeadLines}}

(***************************************************************************)
(* String functions of the JavaScript library, as the code uses them.      *)
(***************************************************************************)
MinOf(S) == CHOOSE x \in S : \A y \in S : x <= y
MaxOf(S) == CHOOSE x \in S : \A y \in S : y <= x

IsSpace(c) == c \in {" ", "\n", "\t", "\r"}

\* String.prototype.trim
trim(s) ==
    LET keep == {i \in 1..Len(s) : ~IsSpace(s[i])}
    IN  IF keep = {} THEN <<>> ELSE SubSeq(s, MinOf(keep), MaxOf(keep))

UpperLetters ==
    <<"A", "B", "C", "D", "E", "F", "G", "H", "I", "J", "K", "L", "M", "N",
      "O", "P", "Q", "R", "S", "T", "U", "V", "W", "X", "Y", "Z">>
LowerLetters ==
    <<"a", "b", "c", "d", "e", "f", "g", "h", "i", "j", "k", "l", "m", "n",
      "o", "p", "q", "r", "s", "t", "u", "v", "w", "x", "y", "z">>

LowerChar(c) ==
    IF \E k \in 1..26 : UpperLetters[k] = c
    THEN LowerLetters[CHOOSE k \in 1..26 : UpperLetters[k] = c]
    ELSE c

\* String.prototype.toLowerCase
RECURSIVE toLowerCase(_)
toLowerCase(s) ==
    IF s = <<>> THEN <<>> ELSE <<LowerChar(Head(s))>> \o toLowerCase(Tail(s))

\* String.prototype.startsWith
startsWith(s, p) == Len(s) >= Len(p) /\ SubSeq(s, 1, Len(p)) = p

\* String.prototype.split("\n")
RECURSIVE splitLines(_)
splitLines(s) ==
    LET nl == {i \in 1..Len(s) : s[i] = "\n"}
    IN  IF nl = {} THEN <<s>>
        ELSE <<SubSeq(s, 1, MinOf(nl) - 1)>>
                 \o splitLines(SubSeq(s, MinOf(nl) + 1, Len(s)))

RECURSIVE MapTrim(_)
MapTrim(ls) ==
    IF ls = <<>> THEN <<>> ELSE <<trim(Head(ls))>> \o MapTrim(Tail(ls))

\* s with its leading white space removed: what is left after \s* matched
RECURSIVE DropSpaces(_)
DropSpaces(s) ==
    IF s # <<>> /\ IsSpace(Head(s)) THEN DropSpaces(Tail(s)) ELSE s

\* line.replace(/^[Ll]ead [Nn]ame:\s*/, "")
ReplaceNamePrefix(l) ==
    IF /\ Len(l) >= 10
       /\ l[1] \in {"L", "l"}
       /\ SubSeq(l, 2, 5) = <<"e", "a", "d", " ">>
       /\ l[6] \in {"N", "n"}
       /\ SubSeq(l, 7, 10) = <<"a", "m", "e", ":">>
    THEN DropSpaces(SubSeq(l, 11, Len(l)))
    ELSE l

\* deriveTitle that takes the last non-empty line when there is no name line
deriveTitleLastLine(lead) ==
    LET lines == SelectSeq(MapTrim(splitLines(lead)), LAMBDA l : l # <<>>)
        named == {i \in 1..Len(lines) :
                     startsWith(toLowerCase(lines[i]), LeadNamePrefix)}
    IN  IF named # {}
        THEN LET t == trim(ReplaceNamePrefix(lines[MinOf(named)]))
             IN  IF t = <<>> THEN UntitledLead ELSE t
        ELSE IF lines = <<>> THEN UntitledLead ELSE lines[Len(lines)]

deriveTitle(lead) ==
    LET lines == SelectSeq(MapTrim(splitLines(lead)), LAMBDA l : l # <<>>)
        named == {i \in 1..Len(lines) :
                     startsWith(toLowerCase(lines[i]), LeadNamePrefix)}
    IN  IF named # {}
        THEN LET t == trim(ReplaceNamePrefix(lines[MinOf(named)]))
             IN  IF t = <<>> THEN UntitledLead ELSE t
        ELSE IF lines = <<>> THEN UntitledLead ELSE lines[1]


(***************************************************************************)
(* splitSections (App.tsx:22-71).                                          *)
(***************************************************************************)
\* App.tsx:57
PhraseOverview ==
    <<"p", "r", "o", "j", "e", "c", "t", " ", "o", "v", "e", "r", "v", "i",
      "e", "w">>
\* App.tsx:58
PhraseBrief ==
    <<"f", "i", "n", "a", "l", " ", "p", "r", "o", "j", "e", "c", "t", " ",
      "b", "r", "i", "e", "f">>
\* App.tsx:59
PhraseProposal ==
    <<"p", "r", "o", "p", "o", "s", "a", "l">>
\* App.tsx:60
PhraseMiniSpecHyphen ==
    <<"m", "i", "n", "i", "-", "s", "p", "e", "c">>
\* App.tsx:60
PhraseMiniSpecSpace ==
    <<"m", "i", "n", "i", " ", "s", "p", "e", "c">>

IsDigit(c) == c \in {"0", "1", "2", "3", "4", "5", "6", "7", "8", "9"}

\* ^ under the m flag: the start of the text, or just after a line terminator
IsLineStart(s, i) == i = 1 \/ s[i - 1] \in {"\n", "\r"}

\* the first position from i on that holds no white space (Len(s) + 1 if none)
SpaceRunEnd(s, i) ==
    LET stop == {k \in i..Len(s) : ~IsSpace(s[k])}
    IN  IF stop = {} THEN Len(s) + 1 ELSE MinOf(stop)

\* the first position from i on that holds no digit (Len(s) + 1 if none)
DigitRunEnd(s, i) ==
    LET stop == {k \in i..Len(s) : ~IsDigit(s[k])}
    IN  IF stop = {} THEN Len(s) + 1 ELSE MinOf(stop)

\* the position of the first "\n" from i on (Len(s) + 1 if none)
LineEnd(s, i) ==
    LET nl == {k \in i..Len(s) : s[k] = "\n"}
    IN  IF nl = {} THEN Len(s) + 1 ELSE MinOf(nl)

NoHeading == [found |-> FALSE, titleStart |-> 0, titleEnd |-> 0]

\* App.tsx:34  /^##\s*\d+\.\s*([^\n]+)\s*$/ tried at position i.  \s* before
\* the digits and \d+ take their whole runs (what follows each must be of
\* another class).  \s* after the period is greedy and gives back: the title
\* starts at the last position of that run, or just after it, that holds a
\* character other than "\n", and runs to the end of that line.  The final
\* \s*$ then always matches, and takes white space only.
HeadingAt(s, i) ==
    IF ~(i + 1 <= Len(s) /\ s[i] = "#" /\ s[i + 1] = "#" /\ IsLineStart(s, i))
    THEN NoHeading
    ELSE LET d == SpaceRunEnd(s, i + 2)
             e == DigitRunEnd(s, d)
         IN  IF ~(d <= Len(s) /\ IsDigit(s[d]) /\ e <= Len(s) /\ s[e] = ".")
             THEN NoHeading
             ELSE LET w == SpaceRunEnd(s, e + 1)
                      cand == {k \in (e + 1)..w : k <= Len(s) /\ s[k] # "\n"}
                  IN  IF cand = {} THEN NoHeading
                      ELSE [found |-> TRUE, titleStart |-> MaxOf(cand),
                            titleEnd |-> LineEnd(s, MaxOf(cand)) - 1]

\* App.tsx:35  [...markdown.matchAll(regex)]: the matches from left to right,
\* each search starting where the match before ended; index counts from 1
RECURSIVE MatchesFrom(_, _)
MatchesFrom(s, from) ==
    LET starts == {i \in from..Len(s) : HeadingAt(s, i).found}
    IN  IF starts = {} THEN <<>>
        ELSE LET i == MinOf(starts)
                 h == HeadingAt(s, i)
             IN  <<[index |-> i,
                    title |-> SubSeq(s, h.titleStart, h.titleEnd)]>>
                     \o MatchesFrom(s, h.titleEnd + 1)

\* String.prototype.includes
includes(s, p) ==
    \E k \in 1..(Len(s) - Len(p) + 1) : SubSeq(s, k, k + Len(p) - 1) = p

\* PartsOf with every part running to the end of the document
PartsOfToEnd(markdown, matches) ==
    [idx \in 1..Len(matches) |->
        [title |-> toLowerCase(matches[idx].title),
         start |-> matches[idx].index,
         end |-> Len(markdown) + 1]]

\* App.tsx:41-48: title, start and end of each part; start and end count
\* from 1, and the part is the text from start to end - 1
PartsOf(markdown, matches) ==
    [idx \in 1..Len(matches) |->
        [title |-> toLowerCase(matches[idx].title),
         start |-> matches[idx].index,
         end |-> IF idx + 1 <= Len(matches) THEN matches[idx + 1].index
                 ELSE Len(markdown) + 1]]

\* AssignParts with "proposal" tested before "final project brief"
RECURSIVE AssignPartsProposalFirst(_, _, _, _)
AssignPartsProposalFirst(markdown, parts, idx, acc) ==
    IF idx > Len(parts) THEN acc
    ELSE LET p == parts[idx]
             body == trim(SubSeq(markdown, p.start, p.end - 1))
             next ==
                 IF includes(p.title, PhraseOverview)
                 THEN [acc EXCEPT !.overview = body]
                 ELSE IF includes(p.title, PhraseProposal)
                 THEN [acc EXCEPT !.proposal = body]
                 ELSE IF includes(p.title, PhraseBrief)
                 THEN [acc EXCEPT !.brief = body]
                 ELSE IF \/ includes(p.title, PhraseMiniSpecHyphen)
                         \/ includes(p.title, PhraseMiniSpecSpace)
                 THEN [acc EXCEPT !.miniSpec = body]
                 ELSE acc
         IN  AssignPartsProposalFirst(markdown, parts, idx + 1, next)

\* AssignParts that keeps the first part assigned to a section
RECURSIVE AssignPartsFirstWins(_, _, _, _)
AssignPartsFirstWins(markdown, parts, idx, acc) ==
    IF idx > Len(parts) THEN acc
    ELSE LET p == parts[idx]
             body == trim(SubSeq(markdown, p.start, p.end - 1))
             next ==
                 IF includes(p.title, PhraseOverview)
                 THEN IF acc.overview = <<>>
                      THEN [acc EXCEPT !.overview = body] ELSE acc
                 ELSE IF includes(p.title, PhraseBrief)
                 THEN IF acc.brief = <<>>
                      THEN [acc EXCEPT !.brief = body] ELSE acc
                 ELSE IF includes(p.title, PhraseProposal)
                 THEN IF acc.proposal = <<>>
                      THEN [acc EXCEPT !.proposal = body] ELSE acc
                 ELSE IF \/ includes(p.title, PhraseMiniSpecHyphen)
                         \/ includes(p.title, PhraseMiniSpecSpace)
                 THEN IF acc.miniSpec = <<>>
                      THEN [acc EXCEPT !.miniSpec = body] ELSE acc
                 ELSE acc
         IN  AssignPartsFirstWins(markdown, parts, idx + 1, next)

\* App.tsx:55-62: the assignments of parts idx, idx + 1, ... made to acc
RECURSIVE AssignParts(_, _, _, _)
AssignParts(markdown, parts, idx, acc) ==
    IF idx > Len(parts) THEN acc
    ELSE LET p == parts[idx]
             body == trim(SubSeq(markdown, p.start, p.end - 1))
             next ==
                 IF includes(p.title, PhraseOverview)
                 THEN [acc EXCEPT !.overview = body]
                 ELSE IF includes(p.title, PhraseBrief)
                 THEN [acc EXCEPT !.brief = body]
                 ELSE IF includes(p.title, PhraseProposal)
                 THEN [acc EXCEPT !.proposal = body]
                 ELSE IF \/ includes(p.title, PhraseMiniSpecHyphen)
                         \/ includes(p.title, PhraseMiniSpecSpace)
                 THEN [acc EXCEPT !.miniSpec = body]
                 ELSE acc
         IN  AssignParts(markdown, parts, idx + 1, next)

splitSections(markdown) ==
    LET base == [all |-> markdown, overview |-> <<>>, brief |-> <<>>,
                 proposal |-> <<>>, miniSpec |-> <<>>]
        matches == MatchesFrom(markdown, 1)
    IN  IF markdown = <<>> THEN base
        ELSE IF Len(matches) = 0 THEN base
        ELSE AssignParts(markdown, PartsOf(markdown, matches), 1, base)

(***************************************************************************)
(* JSON text of the history, as a sequence of tokens.  An item is one      *)
(* token: its fields are strings, which JSON writes and reads back as      *)
(* they are.                                                               *)
(***************************************************************************)
LBracket == [tok |-> "["]
RBracket == [tok |-> "]"]
Comma == [tok |-> ","]
NullTok == [tok |-> "null"]
ObjTok(item) == [tok |-> "object", value |-> item]

RECURSIVE JoinItems(_)
JoinItems(items) ==
    IF items = <<>> THEN <<>>
    ELSE IF Len(items) = 1 THEN <<ObjTok(items[1])>>
    ELSE <<ObjTok(Head(items)), Comma>> \o JoinItems(Tail(items))

\* JSON.stringify of an array of items
JSONstringify(items) == <<LBracket>> \o JoinItems(items) \o <<RBracket>>

\* JSON.parse: threw (SyntaxError), or a value that is an array or is not
JSONparse(raw) ==
    LET n == Len(raw)
        inner == SubSeq(raw, 2, n - 1)
        m == Len(inner)
        wellFormed ==
            \/ m = 0
            \/ /\ m % 2 = 1
               /\ \A i \in 1..m : IF i % 2 = 1 THEN inner[i].tok = "object"
                                                ELSE inner[i] = Comma
    IN  IF n = 1 /\ raw[1].tok \in {"null", "object"}
        THEN [threw |-> FALSE, isArray |-> FALSE, items |-> <<>>]
        ELSE IF n >= 2 /\ raw[1] = LBracket /\ raw[n] = RBracket /\ wellFormed
        THEN [threw |-> FALSE, isArray |-> TRUE,
              items |-> [k \in 1..((m + 1) \div 2) |-> inner[2 * k - 1].value]]
        ELSE [threw |-> TRUE, isArray |-> FALSE, items |-> <<>>]

(***************************************************************************)
(* What the store can hold under HISTORY_KEY when the application starts.  *)
(***************************************************************************)
StoredItem(i) ==
    [id |-> StoredIdBase + i, createdAt |-> 0,
     title |-> IF i % 2 = 1 THEN LeadShop ELSE <<"J", "o">>,
     leadText |-> IF i % 2 = 1 THEN LeadShop ELSE LeadJo,
     outputText |-> IF i % 2 = 1 THEN FolderOld ELSE NoFolderText,
     model |-> "gpt-4.1", tone |-> "concise"]
StoredItems(n) == [i \in 1..n |-> StoredItem(i)]
\* lengths of the arrays found in the store at start
StoredLens == {0, 1, HistoryLimit, HistoryLimit + 1}

AbsentStore == [present |-> FALSE, raw |-> <<>>]
StoreOf(raw) == [present |-> TRUE, raw |-> raw]
InitialStores ==
    {AbsentStore,
     StoreOf(<<>>),                              \* the empty string
     StoreOf(<<LBracket, ObjTok(StoredItem(1))>>), \* cut short: not JSON
     StoreOf(<<NullTok>>),                       \* null
     StoreOf(<<ObjTok(StoredItem(1))>>)}         \* an object, not an array
    \cup {StoreOf(JSONstringify(StoredItems(n))) : n \in StoredLens}

(***************************************************************************)
(* The serverless function (api/generate-project-folder.ts:278-343).       *)
(***************************************************************************)
\* A value of the request body or of the answer of OpenAI that the code
\* expects to be a string: absent, of another type, or a string.
Absent == [kind |-> "absent", text |-> <<>>]
NotAString == [kind |-> "number", text |-> <<>>]
Str(text) == [kind |-> "string", text |-> text]

\* the requests: method, and leadText, model and tone of the body
Requests ==
    [method : {"POST", "GET"},
     leadText : {Absent, NotAString, Str(<<>>), Str(LeadBlank), Str(LeadJo)},
     model : {"", "gpt-4.1"},
     tone : {"", "concise"}]
\* process.env.OPENAI_API_KEY: undefined, empty, or a key
ApiKeys == {"", "sk-key"}

\* what the call of OpenAI comes to: fetch rejects, or answers with a
\* status and a body that is JSON or not; data is null, or an object whose
\* choices[0].message.content is absent, not a string, or a string
Contents ==
    {Absent, NotAString, Str(<<>>), Str(<<" ">>),
     Str(<<" ", "O", "k", "\n">>)}
UpstreamOutcomes ==
    {[rejected |-> TRUE, ok |-> FALSE, decodable |-> FALSE, isNull |-> FALSE,
      content |-> Absent]}
    \cup {[rejected |-> FALSE, ok |-> ok, decodable |-> FALSE,
           isNull |-> FALSE, content |-> Absent] : ok \in BOOLEAN}
    \cup {[rejected |-> FALSE, ok |-> ok, decodable |-> TRUE,
           isNull |-> TRUE, content |-> Absent] : ok \in BOOLEAN}
    \cup {[rejected |-> FALSE, ok |-> ok, decodable |-> TRUE,
           isNull |-> FALSE, content |-> c] :
              ok \in BOOLEAN, c \in Contents}

NoAnswer == [status |-> 0, error |-> "", projectFolder |-> <<>>]
ErrorAnswer(status, msg) ==
    [status |-> status, error |-> msg, projectFolder |-> <<>>]
FolderAnswer(folder) ==
    [status |-> 200, error |-> "", projectFolder |-> folder]
NoCall == [model |-> "", tone |-> "", leadText |-> <<>>]
NoOutcome ==
    [rejected |-> FALSE, ok |-> FALSE, decodable |-> FALSE, isNull |-> FALSE,
     content |-> Absent]

\* stage: "idle" before an invocation, "calling" in `await fetch`, "done"
\* once the answer is sent; calls counts the calls of OpenAI made by the
\* invocation, call is the body of the last one, outcome what it came to
ServerIdle ==
    [stage |-> "idle", apiKey |-> "",
     req |-> [method |-> "POST", leadText |-> Absent, model |-> "",
              tone |-> ""],
     calls |-> 0, call |-> NoCall, outcome |-> NoOutcome, res |-> NoAnswer]

\* ts:287  !leadText || typeof leadText !== "string" || !leadText.trim()
LeadTextMissing(l) == l.kind # "string" \/ trim(l.text) = <<>>

\* ts:279-300: the answer sent before any call of OpenAI, if one is
EarlyAnswer(req, apiKey) ==
    IF req.method # "POST" THEN ErrorAnswer(405, MethodNotAllowedMsg)
    ELSE IF LeadTextMissing(req.leadText)
    THEN ErrorAnswer(400, MissingLeadTextMsg)
    ELSE IF apiKey = "" THEN ErrorAnswer(500, KeyNotSetMsg)
    ELSE NoAnswer

\* ts:301-321: the body of the call of OpenAI
UpstreamCall(req) ==
    [model |-> IF req.model # "" THEN req.model ELSE DefaultModel,
     tone |-> IF req.tone # "" THEN req.tone ELSE DefaultTone,
     leadText |-> req.leadText.text]

\* ts:302-342: the answer sent once the call of OpenAI has settled with o.
\* response.json() throws on a body that is not JSON, data.choices on null
\* and content.trim() on a content that is not a string; the catch block
\* answers for all of them.
LateAnswerNoOkCheck(o) ==
    IF o.rejected \/ ~o.decodable
    THEN ErrorAnswer(500, UnexpectedErrorMsg)
    ELSE IF o.isNull \/ o.content.kind = "number"
    THEN ErrorAnswer(500, UnexpectedErrorMsg)
    ELSE IF o.content.kind = "string" /\ trim(o.content.text) # <<>>
    THEN FolderAnswer(trim(o.content.text))
    ELSE FolderAnswer(NoContentText)
LateAnswer(o) ==
    IF o.rejected \/ ~o.decodable
    THEN ErrorAnswer(500, UnexpectedErrorMsg)
    ELSE IF ~o.ok THEN ErrorAnswer(500, OpenAIErrorMsg)
    ELSE IF o.isNull \/ o.content.kind = "number"
    THEN ErrorAnswer(500, UnexpectedErrorMsg)
    ELSE IF o.content.kind = "string" /\ trim(o.content.text) # <<>>
    THEN FolderAnswer(trim(o.content.text))
    ELSE FolderAnswer(NoContentText)


(***************************************************************************)
(* State.                                                                  *)
(***************************************************************************)
VARIABLES
    leadText,         \* App.tsx:188
    outputText,       \* App.tsx:189
    isLoading,        \* App.tsx:190
    errorText,        \* App.tsx:191
    copyMessage,      \* App.tsx:192
    activeTab,        \* App.tsx:193
    model,            \* App.tsx:194
    tone,             \* App.tsx:195
    history,          \* App.tsx:196
    activeHistoryId,  \* App.tsx:197
    store,            \* window.localStorage under HISTORY_KEY
    phase,            \* "mounting", "rerender" (after the load effect set
                      \* the history), "ready"
    inflight,         \* generations waiting in `await fetch`, each with the
                      \* leadText, model and tone its closure captured
    fetchCount,       \* number of calls of fetch so far
    nextId,           \* number of ids made by makeId so far, plus one
    clipboard,        \* what navigator.clipboard holds: written, text
    copies,           \* calls of handleCopy waiting in `await writeText`,
                      \* each with the text passed to writeText
    timers,           \* callbacks of setTimeout not yet run, each with the
                      \* time it is due
    now,              \* the time, in seconds
    copyCount,        \* number of calls of writeText so far
    server            \* the serverless function: the invocation at hand

vars == <<leadText, outputText, isLoading, errorText, copyMessage, activeTab,
          model, tone, history, activeHistoryId, store, phase, inflight,
          fetchCount, nextId, clipboard, copies, timers, now, copyCount,
          server>>
copyVars == <<clipboard, copies, timers, now, copyCount>>

InitState ==
    /\ leadText = <<>>
    /\ outputText = <<>>
    /\ isLoading = FALSE
    /\ errorText = ""
    /\ copyMessage = ""
    /\ activeTab = "all"
    /\ model = "gpt-4.1-mini"
    /\ tone = "premium"
    /\ history = <<>>
    /\ activeHistoryId = Null
    /\ phase = "mounting"
    /\ inflight = {}
    /\ fetchCount = 0
    /\ nextId = 1
    /\ clipboard = [written |-> FALSE, text |-> <<>>]
    /\ copies = {}
    /\ timers = {}
    /\ now = 0
    /\ copyCount = 0
    /\ server = ServerIdle

\* the main model starts with no history: nothing stored, or an empty array
Init == InitState /\ store \in {AbsentStore, StoreOf(JSONstringify(<<>>))}

\* the model of the start of the application: any stored value
InitStartup == InitState /\ store \in InitialStores

(***************************************************************************)
(* The two effects.                                                        *)
(***************************************************************************)
\* App.tsx:201-213: the value passed to setHistory, if it is called
LoadEffectInverted(st) ==
    IF ~st.present \/ st.raw = <<>>
    THEN [called |-> FALSE, value |-> <<>>]
    ELSE LET parsed == JSONparse(st.raw)
         IN  IF ~parsed.threw /\ ~parsed.isArray
             THEN [called |-> TRUE, value |-> parsed.items]
             ELSE [called |-> FALSE, value |-> <<>>]
LoadEffect(st) ==
    IF ~st.present \/ st.raw = <<>>
    THEN [called |-> FALSE, value |-> <<>>]
    ELSE LET parsed == JSONparse(st.raw)
         IN  IF ~parsed.threw /\ parsed.isArray
             THEN [called |-> TRUE, value |-> parsed.items]
             ELSE [called |-> FALSE, value |-> <<>>]

\* PersistEffect that never writes
PersistEffectNoWrite(st, h, writeOk) == st

\* App.tsx:216-223: the store after the effect ran with history h; setItem
\* throws when writeOk is false (quota, storage disabled), which is ignored
PersistEffect(st, h, writeOk) ==
    IF writeOk THEN StoreOf(JSONstringify(h)) ELSE st

\* Mount with the two effects in the other order: the load effect reads
\* what the persist effect has just written
MountPersistFirst(writeOk) ==
    /\ phase = "mounting"
    /\ store' = PersistEffect(store, <<>>, writeOk)
    /\ LET loaded == LoadEffect(store')
       IN  /\ history' = IF loaded.called THEN loaded.value ELSE history
           /\ phase' = IF loaded.called THEN "rerender" ELSE "ready"
    /\ UNCHANGED <<leadText, outputText, isLoading, errorText, copyMessage,
                   activeTab, model, tone, activeHistoryId, inflight,
                   fetchCount, nextId>>
    /\ UNCHANGED copyVars
    /\ UNCHANGED server

\* First render: both effects run, in the order of their declaration; the
\* persist effect sees the history of that render, which is empty.
Mount(writeOk) ==
    /\ phase = "mounting"
    /\ LET loaded == LoadEffect(store)
       IN  /\ history' = IF loaded.called THEN loaded.value ELSE history
           /\ phase' = IF loaded.called THEN "rerender" ELSE "ready"
    /\ store' = PersistEffect(store, <<>>, writeOk)
    /\ UNCHANGED <<leadText, outputText, isLoading, errorText, copyMessage,
                   activeTab, model, tone, activeHistoryId, inflight,
                   fetchCount, nextId>>
    /\ UNCHANGED copyVars
    /\ UNCHANGED server

\* The render caused by setHistory in the load effect: history changed, so
\* the persist effect runs again.
MountRerender(writeOk) ==
    /\ phase = "rerender"
    /\ phase' = "ready"
    /\ store' = PersistEffect(store, history, writeOk)
    /\ UNCHANGED <<leadText, outputText, isLoading, errorText, copyMessage,
                   activeTab, model, tone, history, activeHistoryId, inflight,
                   fetchCount, nextId>>
    /\ UNCHANGED copyVars
    /\ UNCHANGED server

(***************************************************************************)
(* Form inputs.                                                            *)
(***************************************************************************)
\* App.tsx:608  onChange={(e) => setLeadText(e.target.value)}
setLeadText(t) ==
    /\ phase = "ready"
    /\ leadText' = t
    /\ UNCHANGED <<outputText, isLoading, errorText, copyMessage, activeTab,
                   model, tone, history, activeHistoryId, store, phase,
                   inflight, fetchCount, nextId>>
    /\ UNCHANGED copyVars
    /\ UNCHANGED server

\* App.tsx:479  onChange={(e) => setModel(e.target.value)}
setModel(m) ==
    /\ phase = "ready"
    /\ model' = m
    /\ UNCHANGED <<leadText, outputText, isLoading, errorText, copyMessage,
                   activeTab, tone, history, activeHistoryId, store, phase,
                   inflight, fetchCount, nextId>>
    /\ UNCHANGED copyVars
    /\ UNCHANGED server

\* App.tsx:499  onChange={(e) => setTone(e.target.value)}
setTone(t) ==
    /\ phase = "ready"
    /\ tone' = t
    /\ UNCHANGED <<leadText, outputText, isLoading, errorText, copyMessage,
                   activeTab, model, history, activeHistoryId, store, phase,
                   inflight, fetchCount, nextId>>
    /\ UNCHANGED copyVars
    /\ UNCHANGED server

handleNewProject ==
    /\ phase = "ready"
    /\ leadText' = <<>>
    /\ outputText' = <<>>
    /\ errorText' = ""
    /\ copyMessage' = ""
    /\ activeTab' = "all"
    /\ activeHistoryId' = Null
    /\ UNCHANGED <<isLoading, model, tone, history, store, phase, inflight,
                   fetchCount, nextId>>
    /\ UNCHANGED copyVars
    /\ UNCHANGED server

(***************************************************************************)
(* Generation.                                                             *)
(***************************************************************************)
\* App.tsx:235  !leadText.trim()
IsBlankLeadNoTrim(t) == t = <<>>
IsBlankLead(t) == trim(t) = <<>>

\* handleGenerate with a button that stays enabled while isLoading
handleGenerateNoGate(cap) ==
    /\ phase = "ready"
    /\ IF IsBlankLead(leadText)
       THEN /\ outputText' = <<>>
            /\ errorText' = ValidationMsg
            /\ UNCHANGED <<leadText, isLoading, copyMessage, activeTab, model,
                           tone, history, activeHistoryId, store, phase,
                           inflight, fetchCount, nextId>>
       ELSE /\ fetchCount < cap
            /\ isLoading' = TRUE
            /\ errorText' = ""
            /\ copyMessage' = ""
            /\ activeTab' = "all"
            /\ outputText' = PlaceholderText
            /\ activeHistoryId' = Null
            /\ fetchCount' = fetchCount + 1
            /\ inflight' = inflight \cup
                   {[req |-> fetchCount + 1, leadText |-> leadText,
                     model |-> model, tone |-> tone]}
            /\ UNCHANGED <<leadText, model, tone, history, store, phase,
                           nextId>>
    /\ UNCHANGED copyVars
    /\ UNCHANGED server

\* handleGenerate without setIsLoading(true) before the request
handleGenerateNoLoadingFlag(cap) ==
    /\ phase = "ready"
    /\ ~isLoading
    /\ IF IsBlankLead(leadText)
       THEN /\ outputText' = <<>>
            /\ errorText' = ValidationMsg
            /\ UNCHANGED <<leadText, isLoading, copyMessage, activeTab, model,
                           tone, history, activeHistoryId, store, phase,
                           inflight, fetchCount, nextId>>
       ELSE /\ fetchCount < cap
            /\ isLoading' = isLoading
            /\ errorText' = ""
            /\ copyMessage' = ""
            /\ activeTab' = "all"
            /\ outputText' = PlaceholderText
            /\ activeHistoryId' = Null
            /\ fetchCount' = fetchCount + 1
            /\ inflight' = inflight \cup
                   {[req |-> fetchCount + 1, leadText |-> leadText,
                     model |-> model, tone |-> tone]}
            /\ UNCHANGED <<leadText, model, tone, history, store, phase,
                           nextId>>
    /\ UNCHANGED copyVars
    /\ UNCHANGED server

\* The click on Generate, up to `await fetch`.  The button is disabled while
\* isLoading (App.tsx:614).  cap bounds the number of requests of a run.
handleGenerate(cap) ==
    /\ phase = "ready"
    /\ ~isLoading
    /\ IF IsBlankLead(leadText)
       THEN /\ outputText' = <<>>
            /\ errorText' = ValidationMsg
            /\ UNCHANGED <<leadText, isLoading, copyMessage, activeTab, model,
                           tone, history, activeHistoryId, store, phase,
                           inflight, fetchCount, nextId>>
       ELSE /\ fetchCount < cap
            /\ isLoading' = TRUE
            /\ errorText' = ""
            /\ copyMessage' = ""
            /\ activeTab' = "all"
            /\ outputText' = PlaceholderText
            /\ activeHistoryId' = Null
            /\ fetchCount' = fetchCount + 1
            /\ inflight' = inflight \cup
                   {[req |-> fetchCount + 1, leadText |-> leadText,
                     model |-> model, tone |-> tone]}
            /\ UNCHANGED <<leadText, model, tone, history, store, phase,
                           nextId>>
    /\ UNCHANGED copyVars
    /\ UNCHANGED server

\* What the network can answer.  fetch rejects (a TypeError), or resolves
\* with a response whose status is 2xx (ok) or not, and whose body either
\* cannot be decoded as JSON or is a JSON object.
Body(decodable, syntaxMsg, hasError, error, hasFolder, folder) ==
    [decodable |-> decodable, syntaxMsg |-> syntaxMsg,
     hasError |-> hasError, error |-> error,
     hasFolder |-> hasFolder, projectFolder |-> folder]
EmptyObject == Body(TRUE, "", FALSE, "", FALSE, <<>>)
Bodies ==
    {Body(FALSE, "Unexpected end of JSON input", FALSE, "", FALSE, <<>>),
     Body(FALSE, "Unexpected token < in JSON", FALSE, "", FALSE, <<>>),
     EmptyObject,
     Body(TRUE, "", TRUE, "", FALSE, <<>>),
     Body(TRUE, "", TRUE, "OPENAI_API_KEY is not set on the server.",
          FALSE, <<>>),
     Body(TRUE, "", FALSE, "", TRUE, <<>>),
     Body(TRUE, "", FALSE, "", TRUE, FolderA)}
Rejection == [rejected |-> TRUE, reason |-> "Failed to fetch", ok |-> FALSE,
              body |-> EmptyObject]
Responses ==
    {Rejection} \cup
    {[rejected |-> FALSE, reason |-> "", ok |-> ok, body |-> b] :
         ok \in BOOLEAN, b \in Bodies}

\* a thrown value: an Error (isError) with a message
Thrown(message) == [threw |-> TRUE, isError |-> TRUE, message |-> message,
                    folder |-> <<>>]
Returned(folder) == [threw |-> FALSE, isError |-> FALSE, message |-> "",
                     folder |-> folder]

\* variants of GenerateOutcome with one slip each
GenerateOutcomeNoOkCheck(resp) ==
    IF resp.rejected THEN Thrown(resp.reason)
    ELSE IF ~resp.body.decodable THEN Thrown(resp.body.syntaxMsg)
    ELSE Returned(IF resp.body.hasFolder /\ resp.body.projectFolder # <<>>
                  THEN resp.body.projectFolder ELSE NoFolderText)
GenerateOutcomeNoErrorField(resp) ==
    IF resp.rejected THEN Thrown(resp.reason)
    ELSE IF ~resp.ok THEN Thrown(GenericHttpMsg)
    ELSE IF ~resp.body.decodable THEN Thrown(resp.body.syntaxMsg)
    ELSE Returned(IF resp.body.hasFolder /\ resp.body.projectFolder # <<>>
                  THEN resp.body.projectFolder ELSE NoFolderText)
GenerateOutcomeNoFallback(resp) ==
    IF resp.rejected THEN Thrown(resp.reason)
    ELSE IF ~resp.ok
    THEN LET data == IF resp.body.decodable THEN resp.body ELSE EmptyObject
         IN  Thrown(IF data.hasError /\ data.error # ""
                    THEN data.error ELSE GenericHttpMsg)
    ELSE IF ~resp.body.decodable THEN Thrown(resp.body.syntaxMsg)
    ELSE IF resp.body.hasFolder /\ resp.body.projectFolder # <<>>
    THEN Returned(resp.body.projectFolder)
    ELSE Thrown("No project folder returned.")

\* App.tsx:254-268: the try block after the fetch settled, up to `folder`
GenerateOutcome(resp) ==
    IF resp.rejected THEN Thrown(resp.reason)
    ELSE IF ~resp.ok
    THEN LET data == IF resp.body.decodable THEN resp.body ELSE EmptyObject
         IN  Thrown(IF data.hasError /\ data.error # ""
                    THEN data.error ELSE GenericHttpMsg)
    ELSE IF ~resp.body.decodable THEN Thrown(resp.body.syntaxMsg)
    ELSE Returned(IF resp.body.hasFolder /\ resp.body.projectFolder # <<>>
                  THEN resp.body.projectFolder ELSE NoFolderText)

\* App.tsx:285-288
CatchMessageGeneric(err) == GenericCatchMsg
CatchMessage(err) == IF err.isError THEN err.message ELSE GenericCatchMsg

\* App.tsx:89-99: an id no other item has
makeId == nextId

\* App.tsx:272-280
NewItemCurrentLead(r, folder) ==
    [id |-> makeId, createdAt |-> nextId, title |-> deriveTitle(leadText),
     leadText |-> leadText, outputText |-> folder, model |-> r.model,
     tone |-> r.tone]
\* NewItem with the model and the tone of the form at the time of the answer
NewItemCurrentSettings(r, folder) ==
    [id |-> makeId, createdAt |-> nextId, title |-> deriveTitle(r.leadText),
     leadText |-> r.leadText, outputText |-> folder, model |-> model,
     tone |-> tone]
NewItem(r, folder) ==
    [id |-> makeId, createdAt |-> nextId, title |-> deriveTitle(r.leadText),
     leadText |-> r.leadText, outputText |-> folder, model |-> r.model,
     tone |-> r.tone]

\* App.tsx:282  (prev) => [item, ...prev].slice(0, 15)
PrependAndSliceTail(item, prev) ==
    LET all == <<item>> \o prev
    IN  SubSeq(all, IF Len(all) < HistoryLimit THEN 1
                    ELSE Len(all) - HistoryLimit + 1, Len(all))
\* PrependAndSlice that drops the new item when the history is full
PrependAndSliceDropNew(item, prev) ==
    IF Len(prev) >= HistoryLimit THEN prev ELSE <<item>> \o prev
PrependAndSlice(item, prev) ==
    LET all == <<item>> \o prev
    IN  SubSeq(all, 1, IF Len(all) < HistoryLimit THEN Len(all)
                       ELSE HistoryLimit)

\* handleGenerateSettled with setIsLoading(false) at the end of the try
\* block instead of in finally
handleGenerateSettledNoFinally(r, resp, writeOk) ==
    /\ r \in inflight
    /\ inflight' = inflight \ {r}
    /\ isLoading' = IF GenerateOutcome(resp).threw THEN isLoading ELSE FALSE
    /\ LET out == GenerateOutcome(resp)
       IN  IF out.threw
           THEN /\ errorText' = CatchMessage(out)
                /\ outputText' = <<>>
                /\ UNCHANGED <<history, activeHistoryId, store, nextId>>
           ELSE LET item == NewItem(r, out.folder)
                IN  /\ outputText' = out.folder
                    /\ history' = PrependAndSlice(item, history)
                    /\ activeHistoryId' = item.id
                    /\ nextId' = nextId + 1
                    /\ store' = PersistEffect(store, history', writeOk)
                    /\ UNCHANGED errorText
    /\ UNCHANGED <<leadText, copyMessage, activeTab, model, tone, phase,
                   fetchCount>>
    /\ UNCHANGED copyVars
    /\ UNCHANGED server

\* The rest of handleGenerate, once the fetch of generation r has settled
\* with resp; the persist effect runs after the render when history changed
\* (its setItem succeeds when writeOk).
handleGenerateSettled(r, resp, writeOk) ==
    /\ r \in inflight
    /\ inflight' = inflight \ {r}
    /\ isLoading' = FALSE
    /\ LET out == GenerateOutcome(resp)
       IN  IF out.threw
           THEN /\ errorText' = CatchMessage(out)
                /\ outputText' = <<>>
                /\ UNCHANGED <<history, activeHistoryId, store, nextId>>
           ELSE LET item == NewItem(r, out.folder)
                IN  /\ outputText' = out.folder
                    /\ history' = PrependAndSlice(item, history)
                    /\ activeHistoryId' = item.id
                    /\ nextId' = nextId + 1
                    /\ store' = PersistEffect(store, history', writeOk)
                    /\ UNCHANGED errorText
    /\ UNCHANGED <<leadText, copyMessage, activeTab, model, tone, phase,
                   fetchCount>>
    /\ UNCHANGED copyVars
    /\ UNCHANGED server

\* App.tsx:430  onClick={() => handleSelectHistory(item)}, item = history[i]
handleSelectHistoryMoveToFront(i) ==
    /\ phase = "ready"
    /\ i \in 1..Len(history)
    /\ LET item == history[i]
       IN  /\ leadText' = item.leadText
           /\ outputText' = item.outputText
           /\ model' = item.model
           /\ tone' = item.tone
           /\ activeHistoryId' = item.id
           /\ history' = <<item>> \o SelectSeq(history, LAMBDA h : h # item)
           /\ store' = PersistEffect(store, history', TRUE)
    /\ errorText' = ""
    /\ copyMessage' = ""
    /\ activeTab' = "all"
    /\ UNCHANGED <<isLoading, phase, inflight, fetchCount, nextId>>
    /\ UNCHANGED copyVars
    /\ UNCHANGED server
handleSelectHistory(i) ==
    /\ phase = "ready"
    /\ i \in 1..Len(history)
    /\ LET item == history[i]
       IN  /\ leadText' = item.leadText
           /\ outputText' = item.outputText
           /\ model' = item.model
           /\ tone' = item.tone
           /\ activeHistoryId' = item.id
    /\ errorText' = ""
    /\ copyMessage' = ""
    /\ activeTab' = "all"
    /\ UNCHANGED <<isLoading, history, store, phase, inflight, fetchCount,
                   nextId>>
    /\ UNCHANGED copyVars
    /\ UNCHANGED server

(***************************************************************************)
(* Tabs and copy.                                                          *)
(***************************************************************************)
\* App.tsx:350-356
TabKeys == {"all", "overview", "brief", "proposal", "miniSpec"}

\* App.tsx:679  onClick={() => setActiveTab(tab.key)}
setActiveTab(k) ==
    /\ phase = "ready"
    /\ activeTab' = k
    /\ UNCHANGED <<leadText, outputText, isLoading, errorText, copyMessage,
                   model, tone, history, activeHistoryId, store, phase,
                   inflight, fetchCount, nextId>>
    /\ UNCHANGED copyVars
    /\ UNCHANGED server

\* App.tsx:339-348: the text of the pane
activeTextNoFallback(tab, secs) ==
    IF tab = "all" THEN secs.all
    ELSE IF tab = "overview" THEN secs.overview
    ELSE IF tab = "brief" THEN secs.brief
    ELSE IF tab = "proposal" THEN secs.proposal
    ELSE secs.miniSpec
activeText(tab, secs) ==
    IF tab = "all" THEN secs.all
    ELSE IF tab = "overview"
    THEN IF secs.overview # <<>> THEN secs.overview ELSE secs.all
    ELSE IF tab = "brief"
    THEN IF secs.brief # <<>> THEN secs.brief ELSE secs.all
    ELSE IF tab = "proposal"
    THEN IF secs.proposal # <<>> THEN secs.proposal ELSE secs.all
    ELSE IF secs.miniSpec # <<>> THEN secs.miniSpec ELSE secs.all

\* App.tsx:653  disabled={!outputText.trim() || isLoading}
DownloadDisabled == trim(outputText) = <<>> \/ isLoading

\* App.tsx:662  disabled={!outputText.trim() || isLoading}
CopyDisabled == trim(outputText) = <<>> \/ isLoading

\* App.tsx:300: the text passed to writeText
CopiedTextActivePane == activeText(activeTab, splitSections(outputText))
CopiedText == outputText

\* The click on Copy, up to `await writeText` (App.tsx:297-300).
handleCopy ==
    /\ phase = "ready"
    /\ ~CopyDisabled
    /\ copyCount < MaxCopies
    /\ IF trim(outputText) = <<>>
       THEN UNCHANGED <<copies, copyCount>>
       ELSE /\ copies' = copies \cup
                    {[copy |-> copyCount + 1, text |-> CopiedText]}
            /\ copyCount' = copyCount + 1
    /\ UNCHANGED <<leadText, outputText, isLoading, errorText, copyMessage,
                   activeTab, model, tone, history, activeHistoryId, store,
                   phase, inflight, fetchCount, nextId, clipboard, timers,
                   now>>
    /\ UNCHANGED server

\* The rest of handleCopy, once writeText of copy c has settled: fulfilled
\* (ok) or rejected (App.tsx:301-305).
handleCopySettled(c, ok) ==
    /\ c \in copies
    /\ copies' = copies \ {c}
    /\ IF ok
       THEN /\ clipboard' = [written |-> TRUE, text |-> c.text]
            /\ copyMessage' = CopiedMsg
       ELSE /\ copyMessage' = CopyFailedMsg
            /\ UNCHANGED clipboard
    /\ timers' = timers \cup
           {[copy |-> c.copy, due |-> now + CopyMessageSeconds]}
    /\ UNCHANGED <<leadText, outputText, isLoading, errorText, activeTab,
                   model, tone, history, activeHistoryId, store, phase,
                   inflight, fetchCount, nextId, now, copyCount>>
    /\ UNCHANGED server

\* App.tsx:302, 305  () => setCopyMessage(""), run when its time has come
CopyTimerFires(t) ==
    /\ t \in timers
    /\ t.due <= now
    /\ timers' = timers \ {t}
    /\ copyMessage' = ""
    /\ UNCHANGED <<leadText, outputText, isLoading, errorText, activeTab,
                   model, tone, history, activeHistoryId, store, phase,
                   inflight, fetchCount, nextId, clipboard, copies, now,
                   copyCount>>
    /\ UNCHANGED server

\* One second passes; a callback that is due runs before the next second.
Tick ==
    /\ now < MaxTime
    /\ \A t \in timers : t.due > now
    /\ now' = now + 1
    /\ UNCHANGED <<leadText, outputText, isLoading, errorText, copyMessage,
                   activeTab, model, tone, history, activeHistoryId, store,
                   phase, inflight, fetchCount, nextId, clipboard, copies,
                   timers, copyCount>>
    /\ UNCHANGED server

(***************************************************************************)
(* The invocations of the serverless function.                             *)
(***************************************************************************)
uiVars ==
    <<leadText, outputText, isLoading, errorText, copyMessage, activeTab,
      model, tone, history, activeHistoryId, store, phase, inflight,
      fetchCount, nextId, clipboard, copies, timers, now, copyCount>>

\* An invocation, up to its answer or to `await fetch` (ts:278-301).
handler(req, apiKey) ==
    /\ server.stage \in {"idle", "done"}
    /\ LET early == EarlyAnswer(req, apiKey)
       IN  server' =
               IF early # NoAnswer
               THEN [stage |-> "done", apiKey |-> apiKey, req |-> req,
                     calls |-> 0, call |-> NoCall, outcome |-> NoOutcome,
                     res |-> early]
               ELSE [stage |-> "calling", apiKey |-> apiKey, req |-> req,
                     calls |-> 1, call |-> UpstreamCall(req),
                     outcome |-> NoOutcome, res |-> NoAnswer]
    /\ UNCHANGED uiVars

\* The rest of the invocation, once the call of OpenAI has settled
\* (ts:323-342).
handlerSettled(o) ==
    /\ server.stage = "calling"
    /\ server' = [server EXCEPT !.stage = "done", !.outcome = o,
                                !.res = LateAnswer(o)]
    /\ UNCHANGED uiVars

(***************************************************************************)
(* Values computed at each render.                                         *)
(***************************************************************************)
\* App.tsx:338
sections == splitSections(outputText)

\* The main model: every handler and every answer of the network; writes
\* to the store succeed.
Next ==
    \/ Mount(TRUE)
    \/ MountRerender(TRUE)
    \/ \E t \in LeadTexts : setLeadText(t)
    \/ \E m \in Models : setModel(m)
    \/ \E t \in Tones : setTone(t)
    \/ handleNewProject
    \/ handleGenerate(MaxRequests)
    \/ \E r \in inflight, resp \in Responses :
           handleGenerateSettled(r, resp, TRUE)
    \/ \E i \in 1..HistoryLimit : handleSelectHistory(i)

Spec == Init /\ [][Next]_vars

\* The start of the application: any stored value, writes to the store that
\* succeed or fail, then one lead, generated and selected, with one answer
\* of the network of each kind: rejection, non-2xx, 2xx that cannot be
\* decoded, 2xx with a project folder.
StartupResponses ==
    {resp \in Responses :
        \/ resp.rejected
        \/ ~resp.ok /\ resp.body.hasError /\ resp.body.error # ""
        \/ resp.ok /\ resp.body.syntaxMsg = "Unexpected end of JSON input"
        \/ resp.ok /\ resp.body.hasFolder /\ resp.body.projectFolder # <<>>}
NextStartup ==
    \/ \E w \in BOOLEAN : Mount(w)
    \/ \E w \in BOOLEAN : MountRerender(w)
    \/ setLeadText(LeadJo)
    \/ handleGenerate(StartupRequests)
    \/ \E r \in inflight, resp \in StartupResponses, w \in BOOLEAN :
           handleGenerateSettled(r, resp, w)
    \/ \E i \in 1..(HistoryLimit + 1) : handleSelectHistory(i)

SpecStartup == InitStartup /\ [][NextStartup]_vars

\* Successive generations that all succeed, from an empty history.
SuccessResponses ==
    {resp \in Responses :
        ~resp.rejected /\ resp.ok /\ resp.body.hasFolder
            /\ resp.body.projectFolder # <<>>}
NextSuccessive ==
    \/ Mount(TRUE)
    \/ MountRerender(TRUE)
    \/ setLeadText(LeadJo)
    \/ handleNewProject
    \/ handleGenerate(SuccessiveRuns)
    \/ \E r \in inflight, resp \in SuccessResponses :
           handleGenerateSettled(r, resp, TRUE)

SpecSuccessive == Init /\ [][NextSuccessive]_vars

\* The segmenter at work: the store holds one item of an earlier session,
\* whose output is any document of Docs; the item is loaded and selected,
\* and the output is rendered through splitSections.
SegmentItem(d) == [StoredItem(1) EXCEPT !.outputText = d]
InitSegment ==
    /\ InitState
    /\ store \in {StoreOf(JSONstringify(<<SegmentItem(d)>>)) : d \in Docs}
NextSegment ==
    \/ Mount(TRUE)
    \/ MountRerender(TRUE)
    \/ handleNewProject
    \/ \E i \in 1..HistoryLimit : handleSelectHistory(i)

SpecSegment == InitSegment /\ [][NextSegment]_vars

\* Titles: one lead of TitleLeads is typed into the empty form, then
\* generated with success.
NextTitle ==
    \/ Mount(TRUE)
    \/ MountRerender(TRUE)
    \/ \E t \in TitleLeads : leadText = <<>> /\ setLeadText(t)
    \/ handleGenerate(TitleRuns)
    \/ \E r \in inflight, resp \in SuccessResponses :
           handleGenerateSettled(r, resp, TRUE)

SpecTitle == Init /\ [][NextTitle]_vars

\* The output pane: the store holds two items of an earlier session, one
\* with two of the four sections and one of white space; they are selected,
\* shown through the tabs and copied, while time passes.
ViewItems ==
    <<[StoredItem(1) EXCEPT !.outputText = FolderTwoSections],
      [StoredItem(2) EXCEPT !.outputText = FolderBlank]>>
InitView == InitState /\ store = StoreOf(JSONstringify(ViewItems))
NextView ==
    \/ Mount(TRUE)
    \/ MountRerender(TRUE)
    \/ handleNewProject
    \/ \E i \in 1..HistoryLimit : handleSelectHistory(i)
    \/ \E k \in TabKeys : setActiveTab(k)
    \/ handleCopy
    \/ \E c \in copies, ok \in BOOLEAN : handleCopySettled(c, ok)
    \/ \E t \in timers : CopyTimerFires(t)
    \/ Tick

SpecView == InitView /\ [][NextView]_vars

\* Generations that are answered: every answer of the network of each kind,
\* and a fetch that settles once it has started.
FetchSettles ==
    \E r \in inflight, resp \in StartupResponses :
        handleGenerateSettled(r, resp, TRUE)
NextRetry ==
    \/ Mount(TRUE)
    \/ MountRerender(TRUE)
    \/ \E t \in LeadTexts : setLeadText(t)
    \/ \E t \in Tones : setTone(t)
    \/ handleNewProject
    \/ handleGenerate(MaxRequests)
    \/ FetchSettles
    \/ \E i \in 1..HistoryLimit : handleSelectHistory(i)

SpecRetry == Init /\ [][NextRetry]_vars /\ WF_vars(FetchSettles)

\* The serverless function alone: any request, with or without the key,
\* and any outcome of the call of OpenAI.
NextHandler ==
    \/ \E req \in Requests, k \in ApiKeys : handler(req, k)
    \/ \E o \in UpstreamOutcomes : handlerSettled(o)

SpecHandler == Init /\ [][NextHandler]_vars

\* The start of the application alone, from any stored value, followed by
\* what the user can do without generating.  The write of the first render
\* succeeds or fails; the write of the render that follows the load stores
\* a text no longer than the one the store held at start, and succeeds.
NextMount ==
    \/ \E w \in BOOLEAN : Mount(w)
    \/ MountRerender(TRUE)
    \/ \E t \in LeadTexts : setLeadText(t)
    \/ \E m \in Models : setModel(m)
    \/ handleNewProject
    \/ \E i \in 1..(HistoryLimit + 1) : handleSelectHistory(i)

SpecMount == InitStartup /\ [][NextMount]_vars

(***************************************************************************)
(* Properties.                                                             *)
(***************************************************************************)
\* the classes of answers, read off the answer itself
IsSuccessAnswer(resp) == ~resp.rejected /\ resp.ok /\ resp.body.decodable
IsHttpFailure(resp) == ~resp.rejected /\ ~resp.ok
IsExceptionAnswer(resp) ==
    resp.rejected \/ (resp.ok /\ ~resp.body.decodable)
\* the message of the exception that fetch or res.json() raises
ExceptionMessage(resp) ==
    IF resp.rejected THEN resp.reason ELSE resp.body.syntaxMsg
AllSpaces(t) == \A k \in 1..Len(t) : t[k] \in {" ", "\n", "\t", "\r"}
\* the number of entries of the array in the store, 0 if it holds no array
StoredCount ==
    Cardinality({k \in 1..Len(store.raw) : store.raw[k].tok = "object"})

\* C1: when n generations have succeeded one after the other from an empty
\* history, the history holds the min(n, 15) most recent items, most recent
\* first; after 16 generations these are items 16, 15, ..., 2 and item 1,
\* the oldest, is the one that is gone.
C1_MostRecentFirst ==
    LET n == nextId - 1
    IN  /\ Len(history) = (IF n < 15 THEN n ELSE 15)
        /\ \A k \in 1..Len(history) : history[k].id = n + 1 - k
        /\ (n = 16 /\ inflight = {}) =>
               /\ Len(history) = 15
               /\ history[1].id = 16
               /\ history[15].id = 2
               /\ \A k \in 1..15 : history[k].id # 1
C1_Witness ==
    /\ nextId = 17
    /\ fetchCount = 16
    /\ inflight = {}
    /\ Len(history) = 15
    /\ history[15].id = 2

\* C2: once the application has started, the in-memory history and the
\* array in the store have at most 15 entries, whatever was stored at start.
C2_AtMostFifteen ==
    phase = "ready" => Len(history) <= 15 /\ StoredCount <= 15

\* C3: a generation that succeeds puts exactly one new item in the history
\* (in front of the former items, of which the first 14 at most remain when
\* the history was full); a generation that fails, by a blank lead, a
\* non-2xx answer or an exception, leaves the history as it was.
C3_OneAppendPerSuccess ==
    [][/\ \A r \in inflight : \A resp \in StartupResponses :
          \A w \in BOOLEAN :
              handleGenerateSettled(r, resp, w) =>
                  IF IsSuccessAnswer(resp)
                  THEN /\ Len(history') =
                              (IF Len(history) < 15 THEN Len(history) + 1
                               ELSE 15)
                       /\ \A k \in 1..Len(history) :
                              history'[1].id # history[k].id
                       /\ \A k \in 2..Len(history') :
                              history'[k] = history[k - 1]
                  ELSE history' = history
       /\ (handleGenerate(StartupRequests) /\ AllSpaces(leadText)) =>
              history' = history]_vars
\* a full history took one new item, then a second generation failed
C3_Witness ==
    /\ fetchCount = 2
    /\ inflight = {}
    /\ Len(history) = 15
    /\ history[1].id = 1
    /\ history[2] = StoredItem(1)
    /\ history[15] = StoredItem(14)
    /\ errorText # ""
    /\ errorText # ValidationMsg

\* C4: generate with a lead text that is blank after trimming sets the
\* validation message, calls fetch not at all and leaves isLoading false.
C4_BlankLeadNoRequest ==
    [][(handleGenerate(MaxRequests) /\ AllSpaces(leadText)) =>
           /\ errorText' = "Paste a lead on the left, then click Generate."
           /\ fetchCount' = fetchCount
           /\ inflight' = inflight
           /\ ~isLoading /\ ~isLoading']_vars
C4_Witness ==
    /\ leadText = LeadBlank
    /\ errorText = ValidationMsg
    /\ fetchCount = 0
    /\ ~isLoading

\* C5: on a non-2xx answer the error text is the error message of the JSON
\* body, or "Failed to generate project folder." when the body is absent,
\* malformed or has no error field, and the output text is cleared.
C5_HttpFailureMessage ==
    [][\A r \in inflight : \A resp \in Responses :
           (IsHttpFailure(resp) /\ handleGenerateSettled(r, resp, TRUE)) =>
               /\ outputText' = <<>>
               /\ (resp.body.decodable /\ resp.body.hasError
                       /\ resp.body.error # "") =>
                      errorText' = resp.body.error
               /\ (~resp.body.decodable \/ ~resp.body.hasError) =>
                      errorText' = "Failed to generate project folder."]_vars
C5_Witness ==
    /\ fetchCount = 1
    /\ inflight = {}
    /\ errorText = "OPENAI_API_KEY is not set on the server."
    /\ outputText = <<>>
    /\ history = <<>>

\* C6, as stated: an exception of fetch or of decoding a 2xx body is shown as
\* a generic message, not the exception's own; the output is cleared and no
\* further request is made.
C6_GenericMessage ==
    [][\A r \in inflight : \A resp \in Responses :
           (IsExceptionAnswer(resp) /\ handleGenerateSettled(r, resp, TRUE))
               => /\ errorText' \in {GenericCatchMsg, GenericHttpMsg}
                  /\ errorText' # ExceptionMessage(resp)
                  /\ outputText' = <<>>
                  /\ fetchCount' = fetchCount]_vars
\* C6, amended: the exception is caught and its own message is shown; the
\* output is cleared and no further request is made.
C6_ExceptionMessageShown ==
    [][\A r \in inflight : \A resp \in Responses :
           (IsExceptionAnswer(resp) /\ handleGenerateSettled(r, resp, TRUE))
               => /\ errorText' = ExceptionMessage(resp)
                  /\ outputText' = <<>>
                  /\ fetchCount' = fetchCount
                  /\ inflight' = inflight \ {r}
                  /\ ~isLoading']_vars
C6_Witness ==
    /\ fetchCount = 1
    /\ inflight = {}
    /\ errorText = "Failed to fetch"
    /\ outputText = <<>>
    /\ ~isLoading

\* C7: a 2xx answer whose decoded body has no projectFolder field is a
\* result: the output text is "No project folder returned.", the error text
\* stays empty, and an item with that output text is recorded.
C7_NoFolderIsResult ==
    [][\A r \in inflight : \A resp \in Responses :
           (/\ IsSuccessAnswer(resp)
            /\ ~resp.body.hasFolder
            /\ handleGenerateSettled(r, resp, TRUE))
               => /\ outputText' = NoFolderText
                  /\ errorText = "" /\ errorText' = ""
                  /\ Len(history') >= 1
                  /\ history'[1].outputText = NoFolderText
                  /\ history'[1].leadText = r.leadText
                  /\ history'[1] \notin {history[k] : k \in 1..Len(history)}
      ]_vars
C7_Witness ==
    /\ fetchCount = 1
    /\ inflight = {}
    /\ outputText = NoFolderText
    /\ errorText = ""
    /\ Len(history) = 1
    /\ history[1].outputText = NoFolderText

\* C8: after a successful generation the new item is the first of the
\* history, it is the active one, its title is deriveTitle of the lead text
\* that was submitted, and its outputText is the output text displayed.
C8_NewItemActive ==
    [][\A r \in inflight : \A resp \in Responses :
           (IsSuccessAnswer(resp) /\ handleGenerateSettled(r, resp, TRUE))
               => /\ Len(history') >= 1
                  /\ history'[1].id \notin
                         {history[k].id : k \in 1..Len(history)}
                  /\ activeHistoryId' = history'[1].id
                  /\ history'[1].title = deriveTitle(r.leadText)
                  /\ history'[1].outputText = outputText']_vars
C8_Witness ==
    /\ inflight = {}
    /\ Len(history) = 1
    /\ activeHistoryId = history[1].id
    /\ history[1].leadText = LeadJo
    /\ history[1].title = <<"J", "o">>
    /\ outputText = history[1].outputText
    /\ leadText = LeadBlank

\* C9: the load at start leaves the history empty, and shows no error, when
\* nothing is stored or the stored text is not JSON or is JSON but not an
\* array; it makes the history the stored sequence when it is an array.
C9_LoadAtStart ==
    [][\A w \in BOOLEAN :
           Mount(w) =>
               /\ errorText' = ""
               /\ phase' \in {"rerender", "ready"}
               /\ IF \E n \in StoredLens :
                         store = StoreOf(JSONstringify(StoredItems(n)))
                  THEN \E n \in StoredLens :
                         /\ store = StoreOf(JSONstringify(StoredItems(n)))
                         /\ history' = StoredItems(n)
                  ELSE history' = <<>>]_vars
C9_Witness ==
    /\ phase = "ready"
    /\ fetchCount = 0
    /\ Len(history) = 1
    /\ history[1] = StoredItem(1)

\* C10: selecting an item of the history sets lead text, output text, model
\* and tone to the item's, makes it the active item, calls fetch not at all,
\* and leaves the history and the stored history as they were.
C10_SelectRestores ==
    [][\A i \in 1..Len(history) :
           handleSelectHistory(i) =>
               /\ leadText' = history[i].leadText
               /\ outputText' = history[i].outputText
               /\ model' = history[i].model
               /\ tone' = history[i].tone
               /\ activeHistoryId' = history[i].id
               /\ fetchCount' = fetchCount
               /\ inflight' = inflight
               /\ history' = history
               /\ store' = store]_vars
C10_Witness ==
    /\ Len(history) = 2
    /\ activeHistoryId = history[2].id
    /\ leadText = history[2].leadText
    /\ outputText = history[2].outputText
    /\ model = history[2].model
    /\ tone = history[2].tone
    /\ model # history[1].model
    /\ tone # history[1].tone
    /\ outputText # history[1].outputText
    /\ store = StoreOf(JSONstringify(history))

(***************************************************************************)
(* The segmenter.                                                          *)
(***************************************************************************)
NamedKeys == {"overview", "brief", "proposal", "miniSpec"}

\* the result for a text in which no heading is found
Unsegmented(md) ==
    [all |-> md, overview |-> <<>>, brief |-> <<>>, proposal |-> <<>>,
     miniSpec |-> <<>>]

\* the lines of md that are headings: marker, number, period and title on
\* the line itself
HeadingLines(md) ==
    LET ls == splitLines(md)
    IN  {n \in 1..Len(ls) : HeadingAt(ls[n], 1).found}

\* the headings detected in the output, in document order
detected == MatchesFrom(outputText, 1)
\* the text from the start of heading k of d to the start of the next
\* heading of d, or to the end of the output, trimmed
SpanEnd(d, k) == IF k < Len(d) THEN d[k + 1].index - 1 ELSE Len(outputText)
SpanText(d, k) == trim(SubSeq(outputText, d[k].index, SpanEnd(d, k)))
\* heading k of d from its marker to the end of the line of its title
HeadingLine(d, k) ==
    SubSeq(outputText, d[k].index,
           LineEnd(outputText, HeadingAt(outputText, d[k].index).titleStart) - 1)

\* the target phrases in their order of priority
SectionPhrases ==
    <<[key |-> "overview", phrases |-> {PhraseOverview}],
      [key |-> "brief", phrases |-> {PhraseBrief}],
      [key |-> "proposal", phrases |-> {PhraseProposal}],
      [key |-> "miniSpec",
       phrases |-> {PhraseMiniSpecHyphen, PhraseMiniSpecSpace}]>>
\* the section of the first phrase that the lower-cased title contains
FirstPhraseKey(title) ==
    LET lower == toLowerCase(title)
        hits == {n \in 1..Len(SectionPhrases) :
                    \E ph \in SectionPhrases[n].phrases : includes(lower, ph)}
    IN  IF hits = {} THEN "none" ELSE SectionPhrases[MinOf(hits)].key
\* the section claimed for each heading of d
KeysOf(d) == [k \in 1..Len(d) |-> FirstPhraseKey(d[k].title)]
HeadingsOfKey(keys, K) == {k \in DOMAIN keys : keys[k] = K}
LastOfKey(keys, k) == k = MaxOf(HeadingsOfKey(keys, keys[k]))

\* C11: a text with no top-level numbered heading (no line made of the
\* marker, a number, a period and a title), the empty text included, gives
\* four empty named sections and `all` equal to the text.
C11_NoHeadingNoSection ==
    HeadingLines(outputText) = {} => sections = Unsegmented(outputText)

\* C12: the section of a detected heading that is assigned to a named
\* section is the trimmed text from the start of the heading to the start
\* of the next detected heading, of any title, or to the end of the text:
\* it starts with its own heading line and holds nothing of the next
\* heading's line; the text under a heading that matches no phrase is in no
\* named section.
C12_SectionIsSpan ==
    LET d == detected
        keys == KeysOf(d)
        secs == sections
        span == [k \in 1..Len(d) |-> SpanText(d, k)]
    IN  /\ \A k \in 1..Len(d) :
               (keys[k] \in NamedKeys /\ LastOfKey(keys, k)) =>
                   /\ secs[keys[k]] = span[k]
                   /\ startsWith(secs[keys[k]], trim(HeadingLine(d, k)))
                   /\ Len(secs[keys[k]]) <= SpanEnd(d, k) - d[k].index + 1
        /\ \A k \in 1..Len(d) :
               keys[k] = "none" => \A K \in NamedKeys : secs[K] # span[k]
        /\ \A K \in NamedKeys :
               secs[K] # <<>> =>
                   \E k \in HeadingsOfKey(keys, K) : secs[K] = span[k]
\* an assigned heading with text under it, followed by a heading that
\* matches no phrase
C12_Witness ==
    LET d == detected
        keys == KeysOf(d)
    IN  \E k \in 1..(Len(d) - 1) :
            /\ keys[k] \in NamedKeys
            /\ keys[k + 1] = "none"
            /\ sections[keys[k]] = SpanText(d, k)
            /\ Len(SpanText(d, k)) > Len(HeadingLine(d, k))

\* C13: a detected heading goes to at most one named section, that of the
\* first phrase its lower-cased title contains, in the order "project
\* overview", "final project brief", "proposal", "mini-spec" or "mini
\* spec"; a title with both "final project brief" and "proposal", in any
\* letter case, goes to brief and not to proposal.
C13_FirstPhraseWins ==
    LET d == detected
        keys == KeysOf(d)
        secs == sections
        span == [k \in 1..Len(d) |-> SpanText(d, k)]
    IN  \A k \in 1..Len(d) :
            LET title == toLowerCase(d[k].title)
            IN  /\ \A K \in NamedKeys \ {keys[k]} : secs[K] # span[k]
                /\ (includes(title, PhraseBrief)
                        /\ includes(title, PhraseProposal)
                        /\ ~includes(title, PhraseOverview)) =>
                       /\ secs.proposal # span[k]
                       /\ LastOfKey(keys, k) => secs.brief = span[k]
                /\ (keys[k] \in NamedKeys /\ LastOfKey(keys, k)) =>
                       startsWith(secs[keys[k]], trim(HeadingLine(d, k)))
\* a title, not all in lower case, with both phrases: brief holds its span
\* and proposal holds nothing
C13_Witness ==
    LET d == detected
    IN  \E k \in 1..Len(d) :
            /\ d[k].title # toLowerCase(d[k].title)
            /\ includes(toLowerCase(d[k].title), PhraseBrief)
            /\ includes(toLowerCase(d[k].title), PhraseProposal)
            /\ sections.brief = SpanText(d, k)
            /\ sections.proposal = <<>>

\* C14: of several headings whose titles match the same phrase, the named
\* section holds the span of the last in document order; the spans of the
\* earlier ones are in no named section.
C14_LastHeadingWins ==
    LET d == detected
        keys == KeysOf(d)
        secs == sections
        span == [k \in 1..Len(d) |-> SpanText(d, k)]
    IN  \A K \in NamedKeys :
            Cardinality(HeadingsOfKey(keys, K)) >= 2 =>
                LET last == MaxOf(HeadingsOfKey(keys, K))
                IN  /\ secs[K] = span[last]
                    /\ \A j \in HeadingsOfKey(keys, K) \ {last} :
                           span[j] # span[last] =>
                               \A K2 \in NamedKeys : secs[K2] # span[j]
\* two headings of the same section with different spans: the section
\* holds the later one
C14_Witness ==
    LET d == detected
        keys == KeysOf(d)
    IN  \E K \in NamedKeys :
            \E j \in HeadingsOfKey(keys, K) :
                /\ j < MaxOf(HeadingsOfKey(keys, K))
                /\ SpanText(d, j) # SpanText(d, MaxOf(HeadingsOfKey(keys, K)))
                /\ sections[K] = SpanText(d, MaxOf(HeadingsOfKey(keys, K)))

(***************************************************************************)
(* Titles.                                                                 *)
(***************************************************************************)
TrimmedLines(lead) == MapTrim(splitLines(lead))
\* the lines that start with "lead name:" in any letter case
NameLines(lead) ==
    LET ls == TrimmedLines(lead)
    IN  {i \in 1..Len(ls) : startsWith(toLowerCase(ls[i]), LeadNamePrefix)}
NonEmptyLines(lead) ==
    LET ls == TrimmedLines(lead)
    IN  {i \in 1..Len(ls) : ls[i] # <<>>}
\* what follows the prefix on the first name line, trimmed
NameRemainder(lead) ==
    LET l == TrimmedLines(lead)[MinOf(NameLines(lead))]
    IN  trim(SubSeq(l, Len(LeadNamePrefix) + 1, Len(l)))

\* C15: when a line of the lead starts with "lead name:" in any letter
\* case, the title is what follows the prefix on that line, trimmed, or
\* "Untitled lead" when nothing follows; also when the line is not the
\* first non-empty line.
C15_NameLineGivesName ==
    /\ NameLines(leadText) # {} =>
           deriveTitle(leadText) =
               IF NameRemainder(leadText) = <<>> THEN UntitledLead
               ELSE NameRemainder(leadText)
    /\ \A i \in 1..Len(history) :
           NameLines(history[i].leadText) # {} =>
               history[i].title =
                   IF NameRemainder(history[i].leadText) = <<>>
                   THEN UntitledLead
                   ELSE NameRemainder(history[i].leadText)

\* C16: when no line of the lead starts with "lead name:", the title is
\* the first non-empty line, or "Untitled lead" when the lead has no
\* non-empty line.
C16_FirstLineGivesTitle ==
    /\ NameLines(leadText) = {} =>
           deriveTitle(leadText) =
               IF NonEmptyLines(leadText) = {} THEN UntitledLead
               ELSE TrimmedLines(leadText)[MinOf(NonEmptyLines(leadText))]
    /\ \A i \in 1..Len(history) :
           NameLines(history[i].leadText) = {} =>
               history[i].title =
                   TrimmedLines(history[i].leadText)
                       [MinOf(NonEmptyLines(history[i].leadText))]
\* a generated lead with no name line whose first line is blank: the title
\* is its second line without the spaces around it; the lead typed next has
\* no non-empty line
C16_Witness ==
    /\ Len(history) = 1
    /\ NameLines(history[1].leadText) = {}
    /\ MinOf(NonEmptyLines(history[1].leadText)) = 2
    /\ history[1].title = trim(TextLineShop)
    /\ history[1].title # TextLineShop

(***************************************************************************)
(* The output pane: copy and tabs.                                         *)
(***************************************************************************)
allButActiveTab ==
    <<leadText, outputText, isLoading, errorText, copyMessage, model, tone,
      history, activeHistoryId, store, phase, inflight, fetchCount, nextId,
      clipboard, copies, timers, now, copyCount, server>>

\* C17: a copy passes the full output text to the clipboard whatever tab is
\* active; while the output text is empty or white space no copy starts,
\* and, none being under way, nothing is written to the clipboard and no
\* message is set.
C17_CopyWritesFullOutput ==
    [][/\ handleCopy => \E c \in copies' \ copies : c.text = outputText
       /\ \A c \in copies :
              handleCopySettled(c, TRUE) =>
                  clipboard' = [written |-> TRUE, text |-> c.text]
       /\ trim(outputText) = <<>> =>
              /\ copies' \subseteq copies
              /\ copyCount' = copyCount
              /\ copies = {} =>
                     /\ clipboard' = clipboard
                     /\ copyMessage' \in {copyMessage, ""}]_vars
\* the whole output is in the clipboard, copied while the pane showed the
\* proposal section alone
C17_Witness ==
    /\ clipboard = [written |-> TRUE, text |-> outputText]
    /\ copyMessage = CopiedMsg
    /\ activeTab = "proposal"
    /\ activeText(activeTab, sections) # outputText

\* C18: the message of a copy is cleared 2 seconds after that copy; a copy
\* repeated before then resets the message and its timer: no timer clears
\* a displayed message while the timer of a later copy is still to come.
C18_NotClearedEarly ==
    [][\A t \in timers :
           (copyMessage # "" /\ CopyTimerFires(t)) =>
               ~\E later \in timers : later.due > t.due]_vars

\* C19: selecting a tab changes the active tab and nothing else, and sends
\* no request; the pane of a named tab shows the section when it is not
\* empty and the full document when it is; an output that is not empty
\* never gives an empty pane.
C19_TabChangesPaneOnly ==
    /\ [](LET secs == sections
              pane == activeText(activeTab, secs)
          IN  /\ pane = IF activeTab = "all" \/ secs[activeTab] = <<>>
                        THEN outputText ELSE secs[activeTab]
              /\ outputText # <<>> => pane # <<>>)
    /\ [][\A k \in TabKeys :
              setActiveTab(k) =>
                  /\ activeTab' = k
                  /\ UNCHANGED allButActiveTab]_vars
\* the brief tab of a document with no brief section shows the whole
\* document; its proposal tab would show the proposal alone
C19_Witness ==
    /\ activeTab = "brief"
    /\ outputText = FolderTwoSections
    /\ sections.brief = <<>>
    /\ sections.proposal # <<>>
    /\ activeText(activeTab, sections) = outputText
    /\ activeText("proposal", sections) # outputText

(***************************************************************************)
(* Generations in succession.                                              *)
(***************************************************************************)
\* App.tsx:614  disabled={isLoading}
GenerateDisabled == isLoading

\* C20 as stated: while a generation is outstanding another one can be
\* triggered.
C20_SecondWhileOutstanding == inflight # {} => ~GenerateDisabled

\* C20 as the code has it: the Generate button is disabled from the click
\* to the handling of the response, so at most one generation is
\* outstanding and a new one starts only when none is; a generation that
\* started ends only by the handling of its response (no cancellation, no
\* queue), which writes the output text and the error text.
C20_OneGenerationAtATime ==
    /\ [](Cardinality(inflight) <= 1 /\ (inflight # {} <=> isLoading))
    /\ [][inflight' # inflight =>
              \/ /\ inflight = {}
                 /\ Cardinality(inflight') = 1
                 /\ outputText' = PlaceholderText
              \/ \E r \in inflight :
                     /\ inflight' = {}
                     /\ \E resp \in Responses :
                            /\ handleGenerateSettled(r, resp, TRUE)
                            /\ LET out == GenerateOutcome(resp)
                               IN  IF out.threw
                                   THEN /\ outputText' = <<>>
                                        /\ errorText' = CatchMessage(out)
                                   ELSE /\ outputText' = out.folder
                                        /\ errorText' = errorText]_vars
\* a second generation under way, started after the first was handled
C20_Witness ==
    /\ fetchCount = 2
    /\ Cardinality(inflight) = 1
    /\ isLoading
    /\ Len(history) = 1

(***************************************************************************)
(* Retry.                                                                  *)
(***************************************************************************)
\* C21: a generation whose request settles, with a project folder, with a
\* status that is not 2xx or with an exception, leaves the form usable:
\* the loading flag becomes false, and Generate can be clicked again.
C21_SettledLeavesRetryable ==
    /\ isLoading ~> (~isLoading /\ phase = "ready")
    /\ [][\A r \in inflight, resp \in StartupResponses :
              handleGenerateSettled(r, resp, TRUE) =>
                  ~isLoading' /\ phase' = "ready"]_vars
\* a second generation under way after the first one failed
C21_Witness ==
    /\ fetchCount = 2
    /\ isLoading
    /\ history = <<>>

(***************************************************************************)
(* The serverless function.                                                *)
(***************************************************************************)
\* C22: the answer is 200 with a projectFolder only when the call of
\* OpenAI succeeded; a request that is not a POST (405), a leadText that is
\* missing or blank (400) and a missing key (500) are answered with an
\* error and without any call of OpenAI; a call that fails or throws is
\* answered with 500 and an error.
C22_HandlerAnswers ==
    server.stage = "done" =>
        LET q == server.req
            a == server.res
            o == server.outcome
            noLead == q.leadText.kind # "string" \/ AllSpaces(q.leadText.text)
        IN  /\ a.status = 200 =>
                   /\ a.projectFolder # <<>> /\ a.error = ""
                   /\ server.calls = 1 /\ ~o.rejected /\ o.ok
            /\ a.status # 200 => a.error # "" /\ a.projectFolder = <<>>
            /\ q.method # "POST" => a.status = 405 /\ server.calls = 0
            /\ (q.method = "POST" /\ noLead) =>
                   a.status = 400 /\ server.calls = 0
            /\ (q.method = "POST" /\ ~noLead /\ server.apiKey = "") =>
                   a.status = 500 /\ server.calls = 0
            /\ (server.calls = 1 /\ (o.rejected \/ ~o.ok)) => a.status = 500
\* a POST with a lead and no model, answered 200 with the content of
\* OpenAI's answer, trimmed
C22_Witness ==
    /\ server.stage = "done"
    /\ server.res = FolderAnswer(<<"O", "k">>)
    /\ server.call.model = DefaultModel
    /\ server.calls = 1

(***************************************************************************)
(* Persistence.                                                            *)
(***************************************************************************)
StoredJSON(h) == StoreOf(JSONstringify(h))

\* C23: when the history has changed and the effects have run, the store
\* holds the whole history, unless the write failed; a write that fails
\* leaves the store as it was, the history keeps the change and no error
\* text is shown.
C23_HistoryPersisted ==
    [][/\ (phase' = "ready" /\ (history' # history \/ phase = "rerender")) =>
              store' \in {StoredJSON(history'), store}
       /\ \A w \in BOOLEAN :
              MountRerender(w) =>
                  /\ store' = IF w THEN StoredJSON(history) ELSE store
                  /\ errorText' = ""
       /\ \A r \in inflight, resp \in StartupResponses, w \in BOOLEAN :
              (IsSuccessAnswer(resp) /\ handleGenerateSettled(r, resp, w)) =>
                  /\ history' # history
                  /\ history'[1].outputText = outputText'
                  /\ SubSeq(history', 2, Len(history')) =
                         SubSeq(history, 1, Len(history') - 1)
                  /\ store' = IF w THEN StoredJSON(history') ELSE store
                  /\ errorText' = ""]_vars
\* a generation succeeded and its write failed: the history has the new
\* item, the store has the array of before, and no error is shown
C23_Witness ==
    /\ phase = "ready"
    /\ ~isLoading
    /\ Len(history) = 2
    /\ history[1].outputText = outputText
    /\ store = StoredJSON(Tail(history))
    /\ errorText = ""

(***************************************************************************)
(* The active item.                                                        *)
(***************************************************************************)
\* the positions in the history of the item marked active
ActiveItems == {i \in 1..Len(history) : history[i].id = activeHistoryId}

\* C24: when no generation is outstanding and an item is marked active,
\* the output shown is the output of that item.
C24_ActiveItemShown ==
    (inflight = {} /\ activeHistoryId # Null) =>
        \E i \in ActiveItems : history[i].outputText = outputText

\* C25: the item marked active, if any, is in the history: the mark never
\* points to an item that truncation has removed.
C25_ActiveItemPresent == activeHistoryId # Null => ActiveItems # {}
\* a generation on a full history: the oldest item is gone, and the new
\* item is the active one
C25_Witness ==
    /\ Len(history) = HistoryLimit
    /\ activeHistoryId = history[1].id
    /\ history[1].id < StoredIdBase
    /\ history[HistoryLimit].id = StoredIdBase + HistoryLimit - 1

(***************************************************************************)
(* The request and the item recorded for it.                               *)
(***************************************************************************)
\* C26: the item recorded by a successful generation has the lead text,
\* the model and the tone that were sent in the body of its request,
\* whatever was typed, chosen or selected while the request was in flight.
C26_ItemCarriesRequest ==
    [][/\ (~IsBlankLead(leadText) /\ handleGenerate(MaxRequests)) =>
              \E r \in inflight' \ inflight :
                  /\ r.leadText = leadText
                  /\ r.model = model
                  /\ r.tone = tone
       /\ \A r \in inflight : \A resp \in Responses :
              (IsSuccessAnswer(resp) /\ handleGenerateSettled(r, resp, TRUE))
                  => /\ history'[1].leadText = r.leadText
                     /\ history'[1].model = r.model
                     /\ history'[1].tone = r.tone]_vars
\* the item of a generation during which the lead, the model and the tone
\* of the form were all changed
C26_Witness ==
    /\ inflight = {}
    /\ fetchCount = 1
    /\ Len(history) = 1
    /\ history[1].leadText = LeadJo
    /\ history[1].leadText # leadText
    /\ history[1].model # model
    /\ history[1].tone # tone

C28_LoadingIffOutstanding ==
    /\ isLoading <=> Cardinality(inflight) >= 1
    /\ Cardinality(inflight) >= 1 =>
           GenerateDisabled /\ CopyDisabled /\ DownloadDisabled
\* a second generation outstanding while the form shows text that the
\* export buttons would otherwise offer
C28_Witness ==
    /\ fetchCount = 2
    /\ inflight # {}
    /\ isLoading
    /\ trim(outputText) # <<>>
    /\ history # <<>>
    /\ leadText = LeadBlank

=============================================================================
